---- MODULE Spec2Model ----
(***************************************************************************)
(* gotobranch: the paginated selection model (internal/tui/model.go) over  *)
(* the branch query engine and switch executor (internal/core).            *)
(*                                                                         *)
(* Strings are sequences of one-character strings, so that substring       *)
(* containment, case folding, trimming and integer parsing are computed.   *)
(* A command returned by Update is a closure over a copy of the model; it  *)
(* runs off the event loop (RunList, RunSwitch, RunSelectByNumber) and its *)
(* message is handed to Update later (UpdateListMsg, UpdateSwitchMsg), in  *)
(* any order relative to other commands and key events.                    *)
(***************************************************************************)
EXTENDS Integers, Sequences, FiniteSets, Bags, TLC

\* ------------------------------------------------------------------ bounds
\* Longest filter text the model lets the text input hold.
MaxFilterLen == 1
\* Longest numberBuffer built by digit keys.
MaxBuffer == 2
\* Commands running plus messages not yet handed to Update.
MaxInflight == 2
\* Largest 0-based paginator page (NextPage is unbounded off the last page).
MaxPage == 2
\* Page sizes and pattern lengths ListBranches is listed with.
MaxPageSize == 3
MaxPatternLen == 2
\* The highest page number ListBranches is asked for directly.
MaxProbePage == 4
\* The number of lines of ref source output that is parsed.
MaxLines == 2

\* ------------------------------------------------------- program constants
\* strconv.Atoi on a 64-bit int: the decimal digits of the largest int.
MaxIntDigits ==
  << "9", "2", "2", "3", "3", "7", "2", "0", "3", "6",
     "8", "5", "4", "7", "7", "5", "8", "0", "7" >>
\* tui.New: page size used when Options.PageSize <= 0.
NewDefaultPageSize == 25
\* Update(listMsg) and selectByNumber: fallback when paginator.PerPage <= 0.
FallbackPerPage == 50
\* core.ListBranches: page size used when req.PageSize <= 0.
CoreDefaultPageSize == 50

\* ------------------------------------------------------------------ values
\* An absent *time.Time; a present one is <<instant>>.
NoTime == <<>>
\* No branch name: core.Checkout did not run git switch.
NoTarget == <<>>
NoErr == "nil"
ErrInvalidSelection == "invalid selection"
ErrOutOfRange == "selection out of range"
ErrGitList == "git for-each-ref failed"
ErrGitSwitch == "git switch failed"
ErrNameRequired == "branch name required"
Detached == <<"H", "E", "A", "D">>

selectMode == "selectMode"
filterMode == "filterMode"

ScopeLocal == "local"
ScopeRemote == "remote"
ScopeAll == "all"

\* ----------------------------------------------------------------- strings
IsSpace(c) == c \in {" ", "\t", "\n"}

RECURSIVE TrimLeft(_)
TrimLeft(s) ==
  IF s # <<>> /\ IsSpace(Head(s)) THEN TrimLeft(Tail(s)) ELSE s

RECURSIVE TrimRight(_)
TrimRight(s) ==
  IF s # <<>> /\ IsSpace(s[Len(s)]) THEN TrimRight(SubSeq(s, 1, Len(s) - 1)) ELSE s

TrimSpace(s) == TrimRight(TrimLeft(s))

LowerChar(c) ==
  CASE c = "A" -> "a"
    [] c = "B" -> "b"
    [] c = "H" -> "h"
    [] c = "E" -> "e"
    [] c = "D" -> "d"
    [] OTHER -> c

ToLower(s) == [i \in 1..Len(s) |-> LowerChar(s[i])]

Contains(s, substr) ==
  \E i \in 0..(Len(s) - Len(substr)) : SubSeq(s, i + 1, i + Len(substr)) = substr

DigitValue(c) ==
  CASE c = "0" -> 0 [] c = "1" -> 1 [] c = "2" -> 2 [] c = "3" -> 3
    [] c = "4" -> 4 [] c = "5" -> 5 [] c = "6" -> 6 [] c = "7" -> 7
    [] c = "8" -> 8 [] c = "9" -> 9 [] OTHER -> -1

IsDigit(c) == DigitValue(c) >= 0

RECURSIVE StripZeros(_)
StripZeros(s) ==
  IF s # <<>> /\ Head(s) = "0" THEN StripZeros(Tail(s)) ELSE s

\* Lexicographic s > t on digit strings of equal length.
RECURSIVE DigitsGreater(_, _)
DigitsGreater(s, t) ==
  IF s = <<>> THEN FALSE
  ELSE IF DigitValue(Head(s)) # DigitValue(Head(t))
    THEN DigitValue(Head(s)) > DigitValue(Head(t))
  ELSE DigitsGreater(Tail(s), Tail(t))

\* The digit string's value exceeds the largest int (compared as decimal
\* strings: TLC's integers are narrower than Go's int).
ExceedsMaxInt(s) ==
  LET z == StripZeros(s)
  IN \/ Len(z) > Len(MaxIntDigits)
     \/ Len(z) = Len(MaxIntDigits) /\ DigitsGreater(z, MaxIntDigits)

RECURSIVE DecimalValue(_)
DecimalValue(s) ==
  IF s = <<>> THEN 0
  ELSE DecimalValue(SubSeq(s, 1, Len(s) - 1)) * 10 + DigitValue(s[Len(s)])

\* strconv.Atoi: [n, err]; err is TRUE on an empty string, a non-digit or a
\* value out of the range of int.  A value in range with more than 9 digits
\* is represented by 1000000000: it is larger than every branch count the
\* model can hold, which is all the callers look at.
Atoi(s) ==
  IF s = <<>> \/ \E i \in 1..Len(s) : ~IsDigit(s[i])
    THEN [n |-> 0, err |-> TRUE]
  ELSE IF ExceedsMaxInt(s)
    THEN [n |-> 1000000000, err |-> TRUE]
  ELSE IF Len(StripZeros(s)) > 9
    THEN [n |-> 1000000000, err |-> FALSE]
  ELSE [n |-> DecimalValue(StripZeros(s)), err |-> FALSE]

\* -------------------------------------------------------------------- core
\* A Branch as parseForEachRef builds it: HeadCommitAt is NoTime when the
\* date did not parse, otherwise <<t>> for a positive instant t.
Branch(name, isRemote, at) ==
  [Name |-> name, IsRemote |-> isRemote, IsCurrent |-> FALSE, HeadCommitAt |-> at]

\* Variant: a nil HeadCommitAt counts as later than every real instant.
TimeOf_Newest(b) == IF b.HeadCommitAt = NoTime THEN 1000 ELSE b.HeadCommitAt[1]

\* ---- parseForEachRef.  The output of the ref source is a sequence of
\* characters; "h" stands for the prefix refs/heads/, "m" for
\* refs/remotes/, "D" for a date in RFC3339 form.
\* strings.Index: the position of the first c in s, 0 when there is none.
IndexOf(s, c) ==
  IF \E i \in 1..Len(s) : s[i] = c
    THEN CHOOSE i \in 1..Len(s) : s[i] = c /\ \A j \in 1..(i - 1) : s[j] # c
  ELSE 0

\* strings.SplitN(s, sep, n) for a one-character sep and n >= 1; n = 0
\* stands for no limit (strings.Split).
RECURSIVE SplitN(_, _, _)
SplitN(s, sep, n) ==
  LET i == IndexOf(s, sep)
  IN IF n = 1 \/ i = 0 THEN <<s>>
     ELSE <<SubSeq(s, 1, i - 1)>>
            \o SplitN(SubSeq(s, i + 1, Len(s)), sep, IF n = 0 THEN 0 ELSE n - 1)

\* strings.TrimPrefix for a prefix that is one symbol of the model.
TrimPrefix(s, prefix) == IF s # <<>> /\ Head(s) = prefix THEN Tail(s) ELSE s

\* time.Parse(time.RFC3339, dateStr): the instant, or NoTime on an error.
ParseTime(dateStr) == IF dateStr = <<"D">> THEN <<1>> ELSE NoTime

\* Variant: the whole output is split as it is.
SplitInput_Untrimmed(out) == out

\* The text parseForEachRef splits into lines.
SplitInput(out) == TrimSpace(out)

\* The body of the loop of parseForEachRef for one line: the Branch, or
\* nothing for a line that is skipped.
ParseLine(line, isRemote) ==
  LET parts == SplitN(line, "\t", 4)
  IN IF TrimSpace(line) = <<>> THEN <<>>
     ELSE IF Len(parts) < 4 THEN <<>>
     ELSE << [Name |-> IF isRemote THEN TrimPrefix(parts[1], "m")
                       ELSE TrimPrefix(parts[1], "h"),
              IsRemote |-> isRemote,
              IsCurrent |-> FALSE,
              HeadCommitAt |-> ParseTime(parts[3])] >>

RECURSIVE ParseLines(_, _)
ParseLines(lines, isRemote) ==
  IF lines = <<>> THEN <<>>
  ELSE ParseLine(Head(lines), isRemote) \o ParseLines(Tail(lines), isRemote)

parseForEachRef(out, isRemote) ==
  ParseLines(SplitN(SplitInput(out), "\n", 0), isRemote)

\* time.Time zero value for a nil HeadCommitAt: before every real instant.
TimeOf(b) == IF b.HeadCommitAt = NoTime THEN 0 ELSE b.HeadCommitAt[1]

\* Byte value order of the characters the model uses.
CharCode(c) ==
  CASE c = " " -> 32 [] c = "/" -> 47
    [] c = "0" -> 48 [] c = "1" -> 49 [] c = "2" -> 50 [] c = "3" -> 51
    [] c = "4" -> 52 [] c = "5" -> 53 [] c = "6" -> 54 [] c = "7" -> 55
    [] c = "8" -> 56 [] c = "9" -> 57
    [] c = "A" -> 65 [] c = "B" -> 66 [] c = "D" -> 68 [] c = "E" -> 69
    [] c = "H" -> 72
    [] c = "a" -> 97 [] c = "b" -> 98 [] c = "d" -> 100 [] c = "e" -> 101
    [] c = "h" -> 104 [] c = "j" -> 106 [] c = "k" -> 107 [] c = "o" -> 111
    [] OTHER -> 127

\* Go's < on strings: bytewise lexicographic, a proper prefix is smaller.
RECURSIVE StringLess(_, _)
StringLess(s, t) ==
  IF t = <<>> THEN FALSE
  ELSE IF s = <<>> THEN TRUE
  ELSE IF CharCode(Head(s)) # CharCode(Head(t))
    THEN CharCode(Head(s)) < CharCode(Head(t))
  ELSE StringLess(Tail(s), Tail(t))

\* The comparator handed to sort.Slice.
Less(sortBy, sortDir, bi, bj) ==
  IF sortBy = "name"
    THEN IF sortDir = "asc" THEN StringLess(bi.Name, bj.Name)
         ELSE StringLess(bj.Name, bi.Name)
  ELSE IF sortDir = "asc" THEN TimeOf(bi) < TimeOf(bj)
  ELSE TimeOf(bi) > TimeOf(bj)

\* sort.Slice on at most 12 elements is an insertion sort: each element
\* moves left while it is Less than its left neighbour.
RECURSIVE InsertSorted(_, _, _, _)
InsertSorted(sorted, b, sortBy, sortDir) ==
  IF sorted # <<>> /\ Less(sortBy, sortDir, b, sorted[Len(sorted)])
    THEN Append(InsertSorted(SubSeq(sorted, 1, Len(sorted) - 1), b, sortBy, sortDir),
                sorted[Len(sorted)])
  ELSE Append(sorted, b)

RECURSIVE SortSlice(_, _, _)
SortSlice(bs, sortBy, sortDir) ==
  IF bs = <<>> THEN <<>>
  ELSE InsertSorted(SortSlice(SubSeq(bs, 1, Len(bs) - 1), sortBy, sortDir),
                    bs[Len(bs)], sortBy, sortDir)

\* Variant: the name is compared as it is written.
Matches_CaseSensitive(name, pattern) == Contains(name, ToLower(pattern))

\* The test of the filter loop: the lowered name contains the lowered
\* pattern.
Matches(name, pattern) == Contains(ToLower(name), ToLower(pattern))

RECURSIVE FilterByPattern(_, _)
FilterByPattern(bs, pattern) ==
  IF bs = <<>> THEN <<>>
  ELSE IF Matches(Head(bs).Name, pattern)
    THEN <<Head(bs)>> \o FilterByPattern(Tail(bs), pattern)
  ELSE FilterByPattern(Tail(bs), pattern)

\* Variant: a branch of either kind is marked when the name is equal.
IsCurrentBranch_AnyKind(b, cur) == cur # Detached /\ b.Name = cur

\* The test of the marking loop, which runs only when GetCurrentBranch
\* did not fail.
IsCurrentBranch(b, cur) == cur # Detached /\ ~b.IsRemote /\ b.Name = cur

\* The branches of the scope, local batch first, with the current local
\* branch marked (cur is Detached when GetCurrentBranch fails).
ScopedBranches(rp, scope, cur) ==
  LET loc == IF scope \in {ScopeLocal, ScopeAll} THEN rp.local ELSE <<>>
      rem == IF scope \in {ScopeRemote, ScopeAll} THEN rp.remote ELSE <<>>
      all == loc \o rem
  IN [i \in 1..Len(all) |->
        IF IsCurrentBranch(all[i], cur)
          THEN [all[i] EXCEPT !.IsCurrent = TRUE]
        ELSE all[i]]

\* Variant: every page starts one item further than the one before ended.
PageStart_Skip(page, pageSize) == (page - 1) * (pageSize + 1)

\* The index of the first item of a page.
PageStart(page, pageSize) == (page - 1) * pageSize

\* Variant: the end of the listing counts as one more page.
HasNext_Inclusive(end, total) == end <= total

\* HasNext of the response.
HasNext(end, total) == end < total

\* core.ListBranches when the ref source does not fail.
ListBranches(rp, cur, req) ==
  LET page == IF req.Page <= 0 THEN 1 ELSE req.Page
      pageSize == IF req.PageSize <= 0 THEN CoreDefaultPageSize ELSE req.PageSize
      scoped == ScopedBranches(rp, req.Scope, cur)
      filtered == IF req.Pattern # <<>> THEN FilterByPattern(scoped, req.Pattern)
                  ELSE scoped
      branches == SortSlice(filtered, req.SortBy, req.SortDir)
      total == Len(branches)
      start0 == PageStart(page, pageSize)
      start == IF start0 > total THEN total ELSE start0
      end0 == start + pageSize
      end == IF end0 > total THEN total ELSE end0
  IN [Items |-> SubSeq(branches, start + 1, end),
      Page |-> page,
      PageSize |-> pageSize,
      Total |-> total,
      HasPrev |-> page > 1,
      HasNext |-> HasNext(end, total)]

\* --------------------------------------------------- bubbles collaborators
\* paginator.Model.SetTotalPages(items): the page count for a number of
\* ITEMS; a count below 1 leaves TotalPages as it is.
SetTotalPages(oldTotalPages, perPg, n) ==
  IF n < 1 THEN oldTotalPages
  ELSE (n \div perPg) + (IF n % perPg > 0 THEN 1 ELSE 0)

\* paginator.Model.PrevPage
PrevPage(pg) == IF pg > 0 THEN pg - 1 ELSE pg

\* paginator.Model.NextPage: stops only ON the last page.
NextPage(pg, tp) == IF pg # tp - 1 THEN pg + 1 ELSE pg

\* Keys whose KeyMsg carries a printable rune.
RuneKeys ==
  {"a", "B", "b", "A", " ", "j", "k", "q", "f", "p", "n",
   "0", "1", "2", "3", "4", "5", "6", "7", "8", "9"}

\* textinput.Model.Update on a key message while focused with the text
\* cursor at the end of the value: backspace deletes the last character, a
\* rune is appended, every other key leaves the value alone.
TextInputUpdate(value, key) ==
  IF key = "backspace"
    THEN IF value = <<>> THEN value ELSE SubSeq(value, 1, Len(value) - 1)
  ELSE IF key \in RuneKeys THEN Append(value, key)
  ELSE value

\* ---------------------------------------------------------- repositories
\* Each repository: the local and the remote batch in the ref source's
\* order, and the checked-out branch.
RepoA ==
  [local |-> << Branch(<<"A", "b">>, FALSE, <<3>>),
                Branch(<<"a">>, FALSE, <<5>>),
                Branch(<<"b">>, FALSE, NoTime),
                Branch(<<"b", "a">>, FALSE, <<4>>) >>,
   remote |-> << Branch(<<"o", "/", "a">>, TRUE, <<5>>) >>,
   head |-> <<"a">>]

RepoB ==
  [local |-> << Branch(<<"a">>, FALSE, <<1>>),
                Branch(<<"B">>, FALSE, <<2>>) >>,
   remote |-> << >>,
   head |-> Detached]

\* Keys the terminal delivers, by KeyMsg.String(); a session's user presses
\* the keys of one of these groups.
BrowseKeys ==
  {"up", "k", "down", "j", "pgup", "p", "left", "pgdn", "n", "right",
   "enter", "tab", "esc", "q", "ctrl+c"}
FilterKeys ==
  {"f", "esc", "B", "backspace", "tab", "enter", "pgup", "p", "left",
   "pgdn", "n", "right", "q", "ctrl+c"}
JumpKeys(digits) == digits \cup {"enter", "backspace", "tab", "q"}
ClampKeys == {"up", "down", "f", "B", "tab"}
FilterEditKeys == {"f", "esc", "B", "backspace", "tab", "enter", "q"}
FilterPageKeys == {"f", "pgup", "p", "left", "pgdn", "n", "right", "ctrl+c"}
FilterMoveKeys == {"f", "B", "n", "p", "down"}
PageJumpKeys == {"3", "enter", "n", "p"}
CursorKeys == {"up", "k", "down", "j", "enter", "f"}
TrimKeys == {"f", " ", "B", "backspace", "tab"}
NarrowKeys == {"f", "B", "n", "tab"}

\* The sessions the model starts: Options of tui.New (PageSize as given on
\* the command line, Pattern the optional argument) and the user's keys.
Session(rp, scope, pageSize, pattern, ks) ==
  [repo |-> rp, Scope |-> scope, PageSize |-> pageSize, Pattern |-> pattern,
   keys |-> ks]

Sessions ==
  { Session(RepoA, ScopeAll, 2, <<>>, BrowseKeys),
    Session(RepoA, ScopeAll, 2, <<>>, FilterEditKeys),
    Session(RepoA, ScopeAll, 2, <<>>, FilterPageKeys),
    Session(RepoA, ScopeAll, 2, <<>>, FilterMoveKeys),
    Session(RepoA, ScopeAll, 2, <<>>, JumpKeys({"0", "3"})),
    Session(RepoA, ScopeAll, 2, <<>>, JumpKeys({"1"})),
    Session(RepoA, ScopeAll, 2, <<>>, JumpKeys({"2"})),
    Session(RepoA, ScopeAll, 2, <<>>, JumpKeys({"4"})),
    Session(RepoA, ScopeAll, 2, <<>>, JumpKeys({"5"})),
    Session(RepoA, ScopeAll, 2, <<"B">>, {"3", "enter"}),
    Session(RepoA, ScopeAll, 2, <<"B">>, {"4", "enter"}),
    Session(RepoA, ScopeAll, 2, <<>>, PageJumpKeys),
    Session(RepoB, ScopeLocal, 0, <<>>, JumpKeys({"1"})),
    Session(RepoB, ScopeLocal, 0, <<>>, JumpKeys({"3"})),
    Session(RepoB, ScopeLocal, 0, <<>>, ClampKeys),
    Session(RepoA, ScopeLocal, 0, <<>>, CursorKeys),
    Session(RepoB, ScopeLocal, 0, <<>>, TrimKeys),
    Session(RepoB, ScopeLocal, 1, <<>>, NarrowKeys),
    Session(RepoB, ScopeRemote, 2, <<>>, FilterKeys) }

\* ------------------------------------------------------------------- state
VARIABLES
  repo,          \* the repository's refs (fixed during a session)
  head,          \* the checked-out branch, Detached when there is none
  keys,          \* the keys this session's user presses
  Scope,         \* Model.Scope
  input,         \* Model.input: the text input's value
  page,          \* Model.paginator.Page (0-based)
  perPage,       \* Model.paginator.PerPage
  totalPages,    \* Model.paginator.TotalPages
  items,         \* Model.items
  total,         \* Model.total
  error,         \* Model.error
  cursor,        \* Model.cursor
  mode,          \* Model.mode
  numberBuffer,  \* Model.numberBuffer
  quit,          \* tea.Quit was returned: the program is over
  cmds           \* bag of commands returned by Update whose message has
                 \* not been handled yet

vars ==
  << repo, head, keys, Scope, input, page, perPage, totalPages, items, total,
     error, cursor, mode, numberBuffer, quit, cmds >>

config == << repo, keys, Scope, perPage >>

NoCmd == [kind |-> "none", Pattern |-> <<>>, Page |-> 0, PageSize |-> 0,
          name |-> <<>>, create |-> FALSE, n |-> 0]

\* Variant: the filter text is passed on as it is.
refreshList_Untrimmed(value, pg) ==
  [NoCmd EXCEPT !.kind = "refreshList",
                !.Pattern = value,
                !.Page = pg + 1,
                !.PageSize = perPage]

\* Model.refreshList: a closure over the model's filter text and page.
refreshList(value, pg) ==
  [NoCmd EXCEPT !.kind = "refreshList",
                !.Pattern = TrimSpace(value),
                !.Page = pg + 1,
                !.PageSize = perPage]

\* Model.selectByNumber: a closure over n and the model's filter text.
selectByNumber(n) ==
  [NoCmd EXCEPT !.kind = "selectByNumber",
                !.Pattern = TrimSpace(input),
                !.PageSize = perPage,
                !.n = n]

\* Variant: the closure asks for the branch to be created.
checkoutCmd_Create(name) ==
  [NoCmd EXCEPT !.kind = "checkout", !.name = name, !.create = TRUE]

\* The closure Update returns on enter with an empty buffer: core.Checkout
\* of the name with create false.
checkoutCmd(name) ==
  [NoCmd EXCEPT !.kind = "checkout", !.name = name, !.create = FALSE]

\* Variant: a key is handled only when no command is in flight.
Returns_Blocking(c) ==
  /\ cmds = EmptyBag
  /\ cmds' = IF c.kind = "none" THEN cmds ELSE cmds (+) SetToBag({c})
  /\ UNCHANGED << config, head >>

\* Update returned command c (NoCmd for nil) after handling a key.
Returns(c) ==
  /\ c.kind # "none" => BagCardinality(cmds) < MaxInflight
  /\ cmds' = IF c.kind = "none" THEN cmds ELSE cmds (+) SetToBag({c})
  /\ UNCHANGED << config, head >>

\* tui.New followed by Model.Init, which returns the first refresh; buffer
\* holds the digits typed since.
Start(s, buffer) ==
  /\ repo = s.repo
  /\ head = s.repo.head
  /\ keys = s.keys
  /\ Scope = s.Scope
  /\ input = s.Pattern
  /\ page = 0
  /\ perPage = IF s.PageSize <= 0 THEN NewDefaultPageSize ELSE s.PageSize
  /\ totalPages = 1
  /\ items = <<>>
  /\ total = 0
  /\ error = NoErr
  /\ cursor = 0
  /\ mode = selectMode
  /\ numberBuffer = buffer
  /\ quit = FALSE
  /\ cmds = SetToBag({refreshList(input, page)})

Init == \E s \in Sessions : Start(s, <<>>)

\* ------------------------------------------------ Update: select mode keys
SelectQuit(key) ==
  /\ ~quit /\ mode = selectMode /\ key \in {"ctrl+c", "q"}
  /\ quit' = TRUE
  /\ Returns(NoCmd)
  /\ UNCHANGED << input, page, totalPages, items, total, error, cursor, mode, numberBuffer >>

SelectF(key) ==
  /\ ~quit /\ mode = selectMode /\ key = "f"
  /\ mode' = filterMode
  /\ Returns(NoCmd)
  /\ UNCHANGED << input, page, totalPages, items, total, error, cursor, numberBuffer, quit >>

\* Variant: only a parse error is rejected.
InvalidSelection_ErrOnly(r) == r.err

\* enter: the parsed number is rejected on a parse error or when it is not
\* positive.
InvalidSelection(r) == r.err \/ r.n <= 0

\* enter: a pending number is parsed and cleared; otherwise the branch
\* under the cursor is switched to.
SelectEnter(key) ==
  /\ ~quit /\ mode = selectMode /\ key = "enter"
  /\ IF TrimSpace(numberBuffer) # <<>>
       THEN LET r == Atoi(TrimSpace(numberBuffer))
            IN /\ numberBuffer' = <<>>
               /\ IF InvalidSelection(r)
                    THEN /\ error' = ErrInvalidSelection
                         /\ Returns(NoCmd)
                    ELSE /\ error' = error
                         /\ Returns(selectByNumber(r.n))
     ELSE IF Len(items) = 0
       THEN /\ Returns(NoCmd)
            /\ UNCHANGED << numberBuffer, error >>
     ELSE /\ Returns(checkoutCmd(items[cursor + 1].Name))
          /\ UNCHANGED << numberBuffer, error >>
  /\ UNCHANGED << input, page, totalPages, items, total, cursor, mode, quit >>

SelectBackspace(key) ==
  /\ ~quit /\ mode = selectMode /\ key = "backspace"
  /\ numberBuffer' = IF Len(numberBuffer) > 0
                       THEN SubSeq(numberBuffer, 1, Len(numberBuffer) - 1)
                     ELSE numberBuffer
  /\ Returns(NoCmd)
  /\ UNCHANGED << input, page, totalPages, items, total, error, cursor, mode, quit >>

\* up: the cursor moves to the item before, from the first to the last.
CursorUp(cur, n) ==
  IF n = 0 THEN cur
  ELSE IF cur > 0 THEN cur - 1
  ELSE n - 1

SelectUp(key) ==
  /\ ~quit /\ mode = selectMode /\ key \in {"up", "k"}
  /\ cursor' = CursorUp(cursor, Len(items))
  /\ Returns(NoCmd)
  /\ UNCHANGED << input, page, totalPages, items, total, error, mode, numberBuffer, quit >>

\* Variant: the cursor stops on the last item.
CursorDown_Stop(cur, n) ==
  IF n = 0 THEN cur
  ELSE IF cur < n - 1 THEN cur + 1
  ELSE cur

\* down: the cursor moves to the item after, from the last to the first.
CursorDown(cur, n) ==
  IF n = 0 THEN cur
  ELSE IF cur < n - 1 THEN cur + 1
  ELSE 0

SelectDown(key) ==
  /\ ~quit /\ mode = selectMode /\ key \in {"down", "j"}
  /\ cursor' = CursorDown(cursor, Len(items))
  /\ Returns(NoCmd)
  /\ UNCHANGED << input, page, totalPages, items, total, error, mode, numberBuffer, quit >>

SelectPrevPage(key) ==
  /\ ~quit /\ mode = selectMode /\ key \in {"pgup", "p", "left"}
  /\ IF page > 0
       THEN /\ page' = PrevPage(page)
            /\ cursor' = 0
            /\ Returns(refreshList(input, page'))
       ELSE /\ Returns(NoCmd)
            /\ UNCHANGED << page, cursor >>
  /\ UNCHANGED << input, totalPages, items, total, error, mode, numberBuffer, quit >>

SelectNextPage(key) ==
  /\ ~quit /\ mode = selectMode /\ key \in {"pgdn", "n", "right"}
  /\ page' = NextPage(page, totalPages)
  /\ page' <= MaxPage
  /\ cursor' = 0
  /\ Returns(refreshList(input, page'))
  /\ UNCHANGED << input, totalPages, items, total, error, mode, numberBuffer, quit >>

SelectTab(key) ==
  /\ ~quit /\ mode = selectMode /\ key = "tab"
  /\ numberBuffer' = <<>>
  /\ Returns(NoCmd)
  /\ UNCHANGED << input, page, totalPages, items, total, error, cursor, mode, quit >>

SelectCaseKeys ==
  {"ctrl+c", "q", "f", "enter", "backspace", "up", "k", "down", "j",
   "pgup", "p", "left", "pgdn", "n", "right", "tab"}

\* default: a digit is appended to numberBuffer, any other key is ignored.
SelectDefault(key) ==
  /\ ~quit /\ mode = selectMode /\ key \notin SelectCaseKeys
  /\ IF IsDigit(key)
       THEN /\ Len(numberBuffer) < MaxBuffer
            /\ numberBuffer' = Append(numberBuffer, key)
       ELSE numberBuffer' = numberBuffer
  /\ Returns(NoCmd)
  /\ UNCHANGED << input, page, totalPages, items, total, error, cursor, mode, quit >>

\* ------------------------------------------------ Update: filter mode keys
\* Variant: in filter mode the key goes to the text input.
FilterQuit_Typed(key) ==
  /\ ~quit /\ mode = filterMode /\ key \in {"ctrl+c", "q"}
  /\ input' = TextInputUpdate(input, key)
  /\ Len(input') <= MaxFilterLen
  /\ Returns(refreshList(input', page))
  /\ UNCHANGED << page, totalPages, items, total, error, cursor, mode, numberBuffer, quit >>

FilterQuit(key) ==
  /\ ~quit /\ mode = filterMode /\ key \in {"ctrl+c", "q"}
  /\ quit' = TRUE
  /\ Returns(NoCmd)
  /\ UNCHANGED << input, page, totalPages, items, total, error, cursor, mode, numberBuffer >>

FilterExit(key) ==
  /\ ~quit /\ mode = filterMode /\ key \in {"escape", "f"}
  /\ mode' = selectMode
  /\ Returns(NoCmd)
  /\ UNCHANGED << input, page, totalPages, items, total, error, cursor, numberBuffer, quit >>

FilterTab(key) ==
  /\ ~quit /\ mode = filterMode /\ key = "tab"
  /\ input' = <<>>
  /\ Returns(refreshList(input', page))
  /\ UNCHANGED << page, totalPages, items, total, error, cursor, mode, numberBuffer, quit >>

FilterPrevPage(key) ==
  /\ ~quit /\ mode = filterMode /\ key \in {"pgup", "p", "right"}
  /\ IF page > 0
       THEN /\ page' = PrevPage(page)
            /\ cursor' = 0
            /\ Returns(refreshList(input, page'))
       ELSE /\ Returns(NoCmd)
            /\ UNCHANGED << page, cursor >>
  /\ UNCHANGED << input, totalPages, items, total, error, mode, numberBuffer, quit >>

\* Variant: the letter n is not a case of the switch and goes to the text
\* input.
FilterNextPage_Typed(key) ==
  /\ ~quit /\ mode = filterMode /\ key \in {"pgdn", "n", "left"}
  /\ IF key = "n"
       THEN /\ input' = TextInputUpdate(input, key)
            /\ Len(input') <= MaxFilterLen
            /\ Returns(refreshList(input', page))
            /\ UNCHANGED << page, cursor >>
     ELSE /\ page' = NextPage(page, totalPages)
          /\ page' <= MaxPage
          /\ cursor' = 0
          /\ Returns(refreshList(input, page'))
          /\ input' = input
  /\ UNCHANGED << totalPages, items, total, error, mode, numberBuffer, quit >>

FilterNextPage(key) ==
  /\ ~quit /\ mode = filterMode /\ key \in {"pgdn", "n", "left"}
  /\ page' = NextPage(page, totalPages)
  /\ page' <= MaxPage
  /\ cursor' = 0
  /\ Returns(refreshList(input, page'))
  /\ UNCHANGED << input, totalPages, items, total, error, mode, numberBuffer, quit >>

FilterCaseKeys ==
  {"ctrl+c", "q", "escape", "f", "tab", "pgup", "p", "right", "pgdn", "n", "left"}

\* Variant: enter in filter mode switches to the branch under the cursor.
FilterInput_EnterSwitches(key) ==
  /\ ~quit /\ mode = filterMode /\ key \notin FilterCaseKeys
  /\ input' = TextInputUpdate(input, key)
  /\ Len(input') <= MaxFilterLen
  /\ IF key = "enter" /\ Len(items) > 0
       THEN Returns(checkoutCmd(items[cursor + 1].Name))
     ELSE Returns(refreshList(input', page))
  /\ UNCHANGED << page, totalPages, items, total, error, cursor, mode, numberBuffer, quit >>

\* Every other key goes to the text input, and a refresh is issued whether
\* or not the text changed.
FilterInput(key) ==
  /\ ~quit /\ mode = filterMode /\ key \notin FilterCaseKeys
  /\ input' = TextInputUpdate(input, key)
  /\ Len(input') <= MaxFilterLen
  /\ Returns(refreshList(input', page))
  /\ UNCHANGED << page, totalPages, items, total, error, cursor, mode, numberBuffer, quit >>

\* ---------------------------------------------------- commands (closures)
\* Variant: the current branch is looked up before the name is examined,
\* and reported also for a blank name.
Checkout_LookupFirst(cur, name, create, switched) ==
  LET prev == IF cur # Detached THEN cur ELSE <<>>
      args == IF create THEN <<"switch", "-c", name>> ELSE <<"switch", name>>
  IN IF TrimSpace(name) = <<>>
       THEN [prev |-> prev, err |-> ErrNameRequired, head |-> cur, ran |-> FALSE,
             looked |-> TRUE, args |-> <<>>]
     ELSE IF switched
       THEN [prev |-> prev, err |-> NoErr, head |-> name, ran |-> TRUE,
             looked |-> TRUE, args |-> args]
     ELSE [prev |-> prev, err |-> ErrGitSwitch, head |-> cur, ran |-> TRUE,
           looked |-> TRUE, args |-> args]

\* Variant: nothing is reported as previous branch when the switch fails.
Checkout_PrevOnSuccess(cur, name, create, switched) ==
  LET prev == IF cur # Detached THEN cur ELSE <<>>
      args == IF create THEN <<"switch", "-c", name>> ELSE <<"switch", name>>
  IN IF TrimSpace(name) = <<>>
       THEN [prev |-> <<>>, err |-> ErrNameRequired, head |-> cur, ran |-> FALSE,
             looked |-> FALSE, args |-> <<>>]
     ELSE IF switched
       THEN [prev |-> prev, err |-> NoErr, head |-> name, ran |-> TRUE,
             looked |-> TRUE, args |-> args]
     ELSE [prev |-> <<>>, err |-> ErrGitSwitch, head |-> cur, ran |-> TRUE,
           looked |-> TRUE, args |-> args]

\* core.Checkout: cur is the checked-out branch (Detached when the lookup
\* fails), switched says whether git switch succeeds.  In the result,
\* looked says whether GetCurrentBranch ran, ran whether git switch ran,
\* args which arguments it ran with, head what is checked out afterwards.
Checkout(cur, name, create, switched) ==
  IF TrimSpace(name) = <<>>
    THEN [prev |-> <<>>, err |-> ErrNameRequired, head |-> cur, ran |-> FALSE,
          looked |-> FALSE, args |-> <<>>]
  ELSE LET prev == IF cur # Detached THEN cur ELSE <<>>
           args == IF create THEN <<"switch", "-c", name>> ELSE <<"switch", name>>
       IN IF switched
            THEN [prev |-> prev, err |-> NoErr, head |-> name, ran |-> TRUE,
                  looked |-> TRUE, args |-> args]
          ELSE [prev |-> prev, err |-> ErrGitSwitch, head |-> cur, ran |-> TRUE,
                looked |-> TRUE, args |-> args]

\* The request refreshList and selectByNumber build.
Request(c, pg, pageSize) ==
  [Pattern |-> c.Pattern, Scope |-> Scope, SortBy |-> "recency",
   SortDir |-> "desc", Page |-> pg, PageSize |-> pageSize]

\* Variant: the size of the page is posted as the total.
refreshListMsg_PageTotal(c, ok) ==
  LET resp == ListBranches(repo, head, Request(c, c.Page, c.PageSize))
  IN IF ~ok THEN [items |-> <<>>, total |-> 0, err |-> ErrGitList]
     ELSE [items |-> resp.Items, total |-> Len(resp.Items), err |-> NoErr]

\* The listMsg the closure of refreshList posts: ok says whether the ref
\* source answers.
refreshListMsg(c, ok) ==
  LET resp == ListBranches(repo, head, Request(c, c.Page, c.PageSize))
  IN IF ~ok THEN [items |-> <<>>, total |-> 0, err |-> ErrGitList]
     ELSE [items |-> resp.Items, total |-> resp.Total, err |-> NoErr]

\* The switchMsg the closure of enter on the cursor's branch posts, with
\* the name git switch was run with and the branch checked out afterwards.
checkoutMsg(c, switched) ==
  LET r == Checkout(head, c.name, c.create, switched)
  IN [err |-> r.err, target |-> IF r.ran THEN c.name ELSE NoTarget, head |-> r.head]

\* Variant: the first page is queried whatever the index.
PageOf_FirstPage(idx, perPg) == 1

\* selectByNumber: the 1-based page holding the 0-based index idx.
PageOf(idx, perPg) == (idx \div perPg) + 1

\* Variant: the index itself is taken for the position within the page.
OffsetOf_Index(idx, perPg) == idx

\* selectByNumber: the position of idx within its page.
OffsetOf(idx, perPg) == idx % perPg

\* The switchMsg the closure of selectByNumber posts: page and offset of n,
\* the query for that page, then core.Checkout of the branch at the offset.
selectByNumberMsg(c, ok, switched) ==
  LET perPg == IF c.PageSize <= 0 THEN FallbackPerPage ELSE c.PageSize
      idx == c.n - 1
      pg == PageOf(idx, perPg)
      offset == OffsetOf(idx, perPg)
      resp == ListBranches(repo, head, Request(c, pg, perPg))
      none(e) == [err |-> e, target |-> NoTarget, head |-> head]
  IN IF c.n <= 0 THEN none(ErrInvalidSelection)
     ELSE IF ~ok THEN none(ErrGitList)
     ELSE IF offset < 0 \/ offset >= Len(resp.Items) THEN none(ErrOutOfRange)
     ELSE LET name == resp.Items[offset + 1].Name
              r == Checkout(head, name, FALSE, switched)
          IN [err |-> r.err, target |-> IF r.ran THEN name ELSE NoTarget,
              head |-> r.head]

\* ------------------------------------------------------ Update: messages
\* Variant: the result is taken over even when the query failed.
ListApplies_Always(err) == TRUE

\* listMsg: the result is taken over only when the query did not fail.
ListApplies(err) == err = NoErr

\* Variant: the cursor is kept as it is.
ClampCursor_Keep(cur, n) == cur

\* listMsg: the cursor is pulled back into the new item list.
ClampCursor(cur, n) ==
  IF n = 0 THEN 0
  ELSE IF cur >= n THEN n - 1
  ELSE cur

\* Variants: the program quits on every switch completion; on a failed one.
SwitchQuits_Always(err) == TRUE
SwitchQuits_OnError(err) == err # NoErr

\* switchMsg: the program quits only on a switch without error.
SwitchQuits(err) == err = NoErr

\* A command's closure runs and Update handles its message in one step;
\* commands finish in any order.
Handled(c) ==
  /\ cmds' = cmds (-) SetToBag({c})
  /\ UNCHANGED config

UpdateListMsg(c) ==
  /\ ~quit /\ BagIn(c, cmds) /\ c.kind = "refreshList"
  /\ \E ok \in BOOLEAN :
       LET msg == refreshListMsg(c, ok)
       IN /\ error' = msg.err
          /\ IF ListApplies(msg.err)
               THEN LET perPg == IF perPage <= 0 THEN FallbackPerPage ELSE perPage
                    IN /\ items' = msg.items
                       /\ total' = msg.total
                       /\ totalPages' = SetTotalPages(totalPages, perPage,
                                                      (total' + perPg - 1) \div perPg)
                       /\ cursor' = ClampCursor(cursor, Len(items'))
             ELSE UNCHANGED << items, total, totalPages, cursor >>
  /\ Handled(c)
  /\ UNCHANGED << head, input, page, mode, numberBuffer, quit >>

\* A failed switch falls through to the text input in filter mode, which
\* ignores a message that is not a key, and no refresh is issued.
UpdateSwitchMsg(c) ==
  /\ ~quit /\ BagIn(c, cmds) /\ c.kind \in {"checkout", "selectByNumber"}
  /\ \E ok \in BOOLEAN, switched \in BOOLEAN :
       LET msg == IF c.kind = "checkout" THEN checkoutMsg(c, switched)
                  ELSE selectByNumberMsg(c, ok, switched)
       IN /\ head' = msg.head
          /\ error' = msg.err
          /\ quit' = SwitchQuits(msg.err)
  /\ Handled(c)
  /\ UNCHANGED << input, page, totalPages, items, total, cursor, mode, numberBuffer >>

\* ----------------------------------------------------------- specification
Next ==
  \/ \E key \in keys : SelectQuit(key)
  \/ \E key \in keys : SelectF(key)
  \/ \E key \in keys : SelectEnter(key)
  \/ \E key \in keys : SelectBackspace(key)
  \/ \E key \in keys : SelectUp(key)
  \/ \E key \in keys : SelectDown(key)
  \/ \E key \in keys : SelectPrevPage(key)
  \/ \E key \in keys : SelectNextPage(key)
  \/ \E key \in keys : SelectTab(key)
  \/ \E key \in keys : SelectDefault(key)
  \/ \E key \in keys : FilterQuit(key)
  \/ \E key \in keys : FilterExit(key)
  \/ \E key \in keys : FilterTab(key)
  \/ \E key \in keys : FilterPrevPage(key)
  \/ \E key \in keys : FilterNextPage(key)
  \/ \E key \in keys : FilterInput(key)
  \/ \E c \in BagToSet(cmds) : UpdateListMsg(c)
  \/ \E c \in BagToSet(cmds) : UpdateSwitchMsg(c)

Spec == Init /\ [][Next]_vars

\* Sessions in which digits were typed before the first refresh completed:
\* the number buffers enter is tried on, and the select-mode keys that work
\* on the buffer.
Nines ==
  << "9", "9", "9", "9", "9", "9", "9", "9", "9", "9",
     "9", "9", "9", "9", "9", "9", "9", "9", "9", "9" >>
MaxIntPlusOne == [MaxIntDigits EXCEPT ![Len(MaxIntDigits)] = "8"]
EnterBuffers ==
  { <<"0">>, <<"0", "0", "0">>, <<"0", "0", "2">>, <<"1">>,
    Nines, [Nines EXCEPT ![1] = "0", ![2] = "0"], MaxIntDigits, MaxIntPlusOne }

InitEnter ==
  \E buffer \in EnterBuffers :
    Start(Session(RepoB, ScopeLocal, 0, <<>>, JumpKeys({"0", "9"})), buffer)

NextEnter ==
  \/ \E key \in keys : SelectQuit(key)
  \/ \E key \in keys : SelectEnter(key)
  \/ \E key \in keys : SelectBackspace(key)
  \/ \E key \in keys : SelectTab(key)
  \/ \E key \in keys : SelectDefault(key)
  \/ \E c \in BagToSet(cmds) : UpdateListMsg(c)
  \/ \E c \in BagToSet(cmds) : UpdateSwitchMsg(c)


SpecEnter == InitEnter /\ [][NextEnter]_vars

\* ------------------------------------------------- listing page by page
\* A caller of core.ListBranches that lists a query page by page: repo is
\* the branch set, cmds holds the request last made (Page 0 before the
\* first), page counts the pages listed, items collects them in order and
\* total is the Total of the last response.
RepoC ==
  [local |-> << Branch(<<"a", "B">>, FALSE, <<2>>),
                Branch(<<"B", "a">>, FALSE, <<2>>),
                Branch(<<"b">>, FALSE, NoTime),
                Branch(<<"A">>, FALSE, NoTime),
                Branch(<<"a", "b">>, FALSE, <<1>>) >>,
   remote |-> << Branch(<<"o", "/", "A">>, TRUE, <<3>>),
                 Branch(<<"o", "/", "b">>, TRUE, <<2>>) >>,
   head |-> <<"b">>]

\* A local branch named like a remote-tracking one, and checked out.
RepoD ==
  [local |-> << Branch(<<"o", "/", "a">>, FALSE, <<1>>),
                Branch(<<"b">>, FALSE, <<2>>) >>,
   remote |-> << Branch(<<"o", "/", "a">>, TRUE, <<3>>) >>,
   head |-> <<"o", "/", "a">>]

ListRepos == {RepoA, RepoB, RepoC, RepoD}
PatternChars == {"a", "A", "b"}
Patterns == UNION {[1..n -> PatternChars] : n \in 0..MaxPatternLen}

\* SortBy and SortDir as callers give them: the documented values, none,
\* and one ListBranches does not know.
SortBys == {"name", "recency", "", "date"}
SortDirs == {"asc", "desc", "", "up"}

ListRequest(pattern, scope, sortBy, sortDir, pg, pageSize) ==
  [Pattern |-> pattern, Scope |-> scope, SortBy |-> sortBy,
   SortDir |-> sortDir, Page |-> pg, PageSize |-> pageSize]

InitList ==
  \E rp \in ListRepos, scope \in {ScopeLocal, ScopeRemote, ScopeAll},
     pattern \in Patterns, pageSize \in 1..MaxPageSize,
     sortBy \in SortBys, sortDir \in SortDirs :
    /\ repo = rp
    /\ head = rp.head
    /\ keys = {}
    /\ Scope = scope
    /\ input = pattern
    /\ page = 0
    /\ perPage = pageSize
    /\ totalPages = 1
    /\ items = <<>>
    /\ total = 0
    /\ error = NoErr
    /\ cursor = 0
    /\ mode = selectMode
    /\ numberBuffer = <<>>
    /\ quit = FALSE
    /\ cmds = SetToBag({ListRequest(pattern, scope, sortBy, sortDir, 0, pageSize)})

\* The next page is listed, as long as the last Total promises one.
ListPage(req) ==
  /\ BagIn(req, cmds)
  /\ page = 0 \/ page * perPage < total
  /\ LET next == [req EXCEPT !.Page = page + 1]
         resp == ListBranches(repo, head, next)
     IN /\ items' = items \o resp.Items
        /\ total' = resp.Total
        /\ page' = resp.Page
        /\ cmds' = SetToBag({next})
  /\ UNCHANGED << repo, head, keys, Scope, input, perPage, totalPages, error,
                  cursor, mode, numberBuffer, quit >>

NextList == \E req \in BagToSet(cmds) : ListPage(req)

SpecList == InitList /\ [][NextList]_vars

\* A caller that asks for one page, with any page number and size, zero
\* and negative ones included: cmds holds the request as made, items,
\* total, page and perPage what the response gave.
ProbePage(req) ==
  /\ BagIn(req, cmds)
  /\ page = 0
  /\ \E pg \in -1..MaxProbePage, pageSize \in 0..MaxPageSize :
       LET asked == [req EXCEPT !.Page = pg, !.PageSize = pageSize]
           resp == ListBranches(repo, head, asked)
       IN /\ items' = resp.Items
          /\ total' = resp.Total
          /\ page' = resp.Page
          /\ perPage' = resp.PageSize
          /\ cmds' = SetToBag({asked})
  /\ UNCHANGED << repo, head, keys, Scope, input, totalPages, error,
                  cursor, mode, numberBuffer, quit >>

NextProbe == \E req \in BagToSet(cmds) : ProbePage(req)

\* The request starts without a page and with the smallest page size; the
\* probe replaces both.
InitProbe == InitList /\ perPage = 1

SpecProbe == InitProbe /\ [][NextProbe]_vars

\* ------------------------------------------------- callers of Checkout
\* A caller of core.Checkout that makes one call after the other: head is
\* the checked-out branch, cmds holds the last call and what it returned,
\* error its error.
CheckoutNames ==
  { <<>>, <<" ">>, <<" ", " ">>, <<"\t">>, <<"\n", " ">>,
    <<"a">>, <<"b">>, <<"o", "/", "a">>, <<" ", "a">> }

InitCheckout ==
  \E rp \in ListRepos :
    /\ repo = rp
    /\ head = rp.head
    /\ keys = {}
    /\ Scope = ScopeLocal
    /\ input = <<>>
    /\ page = 0
    /\ perPage = NewDefaultPageSize
    /\ totalPages = 1
    /\ items = <<>>
    /\ total = 0
    /\ error = NoErr
    /\ cursor = 0
    /\ mode = selectMode
    /\ numberBuffer = <<>>
    /\ quit = FALSE
    /\ cmds = EmptyBag

CheckoutCall(name, create, switched) ==
  LET r == Checkout(head, name, create, switched)
  IN /\ head' = r.head
     /\ error' = r.err
     /\ cmds' = SetToBag({[kind |-> "Checkout", before |-> head, name |-> name,
                            create |-> create, prev |-> r.prev, err |-> r.err,
                            looked |-> r.looked, ran |-> r.ran, args |-> r.args]})
     /\ UNCHANGED << repo, keys, Scope, input, page, perPage, totalPages, items,
                     total, cursor, mode, numberBuffer, quit >>

NextCheckout ==
  \E name \in CheckoutNames, create \in BOOLEAN, switched \in BOOLEAN :
    CheckoutCall(name, create, switched)

SpecCheckout == InitCheckout /\ [][NextCheckout]_vars

\* -------------------------------------------- parsing ref source output
\* A caller of parseForEachRef: input holds the output of git
\* for-each-ref, every line ended by a line end, Scope says which batch it
\* is, and items receives the branches parsed.
RefLines ==
  { <<"h", "x", "\t", "s", "\t", "D", "\t", "c">>,    \* a branch
    <<"m", "o", "\t", "s", "\t", "D", "\t", "c">>,    \* a remote-tracking branch
    <<"h", "y", "\t", "s", "\t", "D", "\t">>,         \* empty subject
    <<"h", "z", "\t", "s", "\t", "D", "\t", "c", "\t", "c">>,  \* tab in the subject
    <<"h", "w", "\t", "s", "\t", "?", "\t", "c">>,    \* date that does not parse
    <<"h", "v", "\t", "s", "\t", "D">>,               \* three fields
    <<>>,                                              \* blank lines
    <<" ">> }

RECURSIVE JoinLines(_)
JoinLines(ls) ==
  IF ls = <<>> THEN <<>> ELSE Head(ls) \o <<"\n">> \o JoinLines(Tail(ls))

InitParse ==
  \E ls \in UNION {[1..n -> RefLines] : n \in 0..MaxLines}, isRemote \in BOOLEAN :
    /\ repo = RepoB
    /\ head = Detached
    /\ keys = {}
    /\ Scope = IF isRemote THEN ScopeRemote ELSE ScopeLocal
    /\ input = JoinLines(ls)
    /\ page = 0
    /\ perPage = NewDefaultPageSize
    /\ totalPages = 1
    /\ items = <<>>
    /\ total = 0
    /\ error = NoErr
    /\ cursor = 0
    /\ mode = selectMode
    /\ numberBuffer = <<>>
    /\ quit = FALSE
    /\ cmds = EmptyBag

\* The output is parsed; page counts the batches parsed.
ParseOutput ==
  /\ page = 0
  /\ items' = parseForEachRef(input, Scope = ScopeRemote)
  /\ total' = Len(items')
  /\ page' = 1
  /\ UNCHANGED << repo, head, keys, Scope, input, perPage, totalPages, error,
                  cursor, mode, numberBuffer, quit, cmds >>

NextParse == ParseOutput

SpecParse == InitParse /\ [][NextParse]_vars

\* --------------------------------------------- the viewport revision
\* The revision of the model that shows the list in a viewport has no
\* paginator: its queries leave Page and PageSize unset.  Its handling of
\* q, f, backspace, up, down, tab and the digits in select mode and of q
\* in filter mode reads as above; the other cases follow.  The viewport
\* itself holds what is drawn and is left out.

\* A goroutine of the program that panicked: the program is over.
Panicked == [NoCmd EXCEPT !.kind = "panic"]

ViewportRefreshList(value) ==
  [NoCmd EXCEPT !.kind = "refreshList", !.Pattern = TrimSpace(value)]

ViewportSelectByNumber(n) ==
  [NoCmd EXCEPT !.kind = "selectByNumber", !.Pattern = TrimSpace(input), !.n = n]

ViewportSessions ==
  { Session(RepoA, ScopeAll, 0, <<>>, {"3", "6", "enter", "backspace", "tab", "q"}),
    Session(RepoB, ScopeLocal, 0, <<>>, {"2", "3", "enter"}),
    Session(RepoA, ScopeAll, 0, <<>>,
            {"f", "esc", "B", "tab", "pgup", "pgdn", "up", "down", "enter", "q"}) }

\* tui.New followed by Model.Init.
InitViewport ==
  \E s \in ViewportSessions :
    /\ repo = s.repo
    /\ head = s.repo.head
    /\ keys = s.keys
    /\ Scope = s.Scope
    /\ input = s.Pattern
    /\ page = 0
    /\ perPage = 0
    /\ totalPages = 0
    /\ items = <<>>
    /\ total = 0
    /\ error = NoErr
    /\ cursor = 0
    /\ mode = selectMode
    /\ numberBuffer = <<>>
    /\ quit = FALSE
    /\ cmds = SetToBag({ViewportRefreshList(input)})

\* enter: as above, but the cursor is not pulled back by a listMsg, so
\* Items[cursor] panics when the list has shrunk below it.
ViewportEnter(key) ==
  /\ ~quit /\ mode = selectMode /\ key = "enter"
  /\ IF TrimSpace(numberBuffer) # <<>>
       THEN LET r == Atoi(TrimSpace(numberBuffer))
            IN /\ numberBuffer' = <<>>
               /\ quit' = quit
               /\ IF InvalidSelection(r)
                    THEN /\ error' = ErrInvalidSelection
                         /\ Returns(NoCmd)
                    ELSE /\ error' = error
                         /\ Returns(ViewportSelectByNumber(r.n))
     ELSE IF Len(items) = 0
       THEN /\ Returns(NoCmd)
            /\ UNCHANGED << numberBuffer, error, quit >>
     ELSE IF cursor >= Len(items)
       THEN /\ quit' = TRUE
            /\ cmds' = cmds (+) SetToBag({Panicked})
            /\ UNCHANGED << config, head, numberBuffer, error >>
     ELSE /\ Returns(checkoutCmd(items[cursor + 1].Name))
          /\ UNCHANGED << numberBuffer, error, quit >>
  /\ UNCHANGED << input, page, totalPages, items, total, cursor, mode >>

ViewportSelectPageUp(key) ==
  /\ ~quit /\ mode = selectMode /\ key \in {"pgup", "p", "left"}
  /\ Returns(NoCmd)
  /\ UNCHANGED << input, page, totalPages, items, total, error, cursor, mode,
                  numberBuffer, quit >>

ViewportSelectPageDown(key) ==
  /\ ~quit /\ mode = selectMode /\ key \in {"pgdn", "n", "right"}
  /\ Returns(ViewportRefreshList(input))
  /\ UNCHANGED << input, page, totalPages, items, total, error, cursor, mode,
                  numberBuffer, quit >>

ViewportFilterExit(key) ==
  /\ ~quit /\ mode = filterMode /\ key = "esc"
  /\ mode' = selectMode
  /\ Returns(NoCmd)
  /\ UNCHANGED << input, page, totalPages, items, total, error, cursor,
                  numberBuffer, quit >>

ViewportFilterTab(key) ==
  /\ ~quit /\ mode = filterMode /\ key = "tab"
  /\ input' = <<>>
  /\ Returns(ViewportRefreshList(input'))
  /\ UNCHANGED << page, totalPages, items, total, error, cursor, mode,
                  numberBuffer, quit >>

ViewportFilterPageUp(key) ==
  /\ ~quit /\ mode = filterMode /\ key \in {"pgup", "p", "right"}
  /\ Returns(NoCmd)
  /\ UNCHANGED << input, page, totalPages, items, total, error, cursor, mode,
                  numberBuffer, quit >>

ViewportFilterPageDown(key) ==
  /\ ~quit /\ mode = filterMode /\ key \in {"pgdn", "n", "left"}
  /\ Returns(ViewportRefreshList(input))
  /\ UNCHANGED << input, page, totalPages, items, total, error, cursor, mode,
                  numberBuffer, quit >>

ViewportFilterCaseKeys ==
  {"ctrl+c", "q", "esc", "tab", "pgup", "p", "right", "pgdn", "n", "left"}

ViewportFilterInput(key) ==
  /\ ~quit /\ mode = filterMode /\ key \notin ViewportFilterCaseKeys
  /\ input' = TextInputUpdate(input, key)
  /\ Len(input') <= MaxFilterLen
  /\ Returns(ViewportRefreshList(input'))
  /\ UNCHANGED << page, totalPages, items, total, error, cursor, mode,
                  numberBuffer, quit >>

\* The closure of selectByNumber: one query without page or page size, then
\* core.Checkout of resp.Items[n-1]; the index is not checked, and panic
\* says that the closure panicked on it instead of posting a switchMsg.
ViewportSelectByNumberMsg(c, ok, switched) ==
  LET idx == c.n - 1
      resp == ListBranches(repo, head, Request(c, c.Page, c.PageSize))
      none(e) == [err |-> e, target |-> NoTarget, head |-> head, panic |-> FALSE]
  IN IF c.n <= 0 THEN none(ErrInvalidSelection)
     ELSE IF ~ok THEN none(ErrGitList)
     ELSE IF idx >= Len(resp.Items) THEN [none(NoErr) EXCEPT !.panic = TRUE]
     ELSE LET name == resp.Items[idx + 1].Name
              r == Checkout(head, name, FALSE, switched)
          IN [err |-> r.err, target |-> IF r.ran THEN name ELSE NoTarget,
              head |-> r.head, panic |-> FALSE]

ViewportListMsg(c) ==
  /\ ~quit /\ BagIn(c, cmds) /\ c.kind = "refreshList"
  /\ \E ok \in BOOLEAN :
       LET msg == refreshListMsg(c, ok)
       IN /\ error' = msg.err
          /\ IF msg.err = NoErr
               THEN items' = msg.items /\ total' = msg.total
             ELSE UNCHANGED << items, total >>
  /\ Handled(c)
  /\ UNCHANGED << head, input, page, totalPages, cursor, mode, numberBuffer, quit >>

ViewportSwitchMsg(c) ==
  /\ ~quit /\ BagIn(c, cmds) /\ c.kind \in {"checkout", "selectByNumber"}
  /\ \E ok \in BOOLEAN, switched \in BOOLEAN :
       LET msg == IF c.kind = "checkout"
                    THEN checkoutMsg(c, switched) @@ [panic |-> FALSE]
                  ELSE ViewportSelectByNumberMsg(c, ok, switched)
       IN IF msg.panic
            THEN /\ quit' = TRUE
                 /\ cmds' = (cmds (-) SetToBag({c})) (+) SetToBag({Panicked})
                 /\ UNCHANGED << head, error >>
          ELSE /\ head' = msg.head
               /\ error' = msg.err
               /\ quit' = SwitchQuits(msg.err)
               /\ cmds' = cmds (-) SetToBag({c})
  /\ UNCHANGED << config, input, page, totalPages, items, total, cursor, mode,
                  numberBuffer >>

NextViewport ==
  \/ \E key \in keys : SelectQuit(key)
  \/ \E key \in keys : SelectF(key)
  \/ \E key \in keys : ViewportEnter(key)
  \/ \E key \in keys : SelectBackspace(key)
  \/ \E key \in keys : SelectUp(key)
  \/ \E key \in keys : SelectDown(key)
  \/ \E key \in keys : ViewportSelectPageUp(key)
  \/ \E key \in keys : ViewportSelectPageDown(key)
  \/ \E key \in keys : SelectTab(key)
  \/ \E key \in keys : SelectDefault(key)
  \/ \E key \in keys : FilterQuit(key)
  \/ \E key \in keys : ViewportFilterExit(key)
  \/ \E key \in keys : ViewportFilterTab(key)
  \/ \E key \in keys : ViewportFilterPageUp(key)
  \/ \E key \in keys : ViewportFilterPageDown(key)
  \/ \E key \in keys : ViewportFilterInput(key)
  \/ \E c \in BagToSet(cmds) : ViewportListMsg(c)
  \/ \E c \in BagToSet(cmds) : ViewportSwitchMsg(c)

SpecViewport == InitViewport /\ [][NextViewport]_vars

\* ------------------------------------------------------------ properties
\* A step in which Update handles the message of command c.
Completes(c) == BagIn(c, cmds) /\ cmds' = cmds (-) SetToBag({c})
RefreshCompletes(c) == c.kind = "refreshList" /\ Completes(c)
SwitchCompletes(c) == c.kind \in {"checkout", "selectByNumber"} /\ Completes(c)
RefreshPending == \E c \in BagToSet(cmds) : c.kind = "refreshList"

\* The query a refresh issued now would make.
CurrentQuery ==
  ListBranches(repo, head,
               [Pattern |-> TrimSpace(input), Scope |-> Scope, SortBy |-> "recency",
                SortDir |-> "desc", Page |-> page + 1, PageSize |-> perPage])

\* The answer to the query command c captured.
AnswerTo(c) ==
  ListBranches(repo, head,
               [Pattern |-> c.Pattern, Scope |-> Scope, SortBy |-> "recency",
                SortDir |-> "desc", Page |-> c.Page, PageSize |-> c.PageSize])

Ceil(a, b) == (a + b - 1) \div b

\* C1: in every state the cursor is an index of items, and 0 when items is
\* empty, whatever keys and completions came before.
C1_CursorInBounds ==
  IF Len(items) = 0 THEN cursor = 0 ELSE 0 <= cursor /\ cursor < Len(items)

\* The user could move the cursor to the second of two items, and a filter
\* then left a single item.
C1_Witness ==
  /\ keys = ClampKeys /\ ~RefreshPending /\ error = NoErr
  /\ input = <<"B">> /\ Len(items) = 1 /\ cursor = 0

\* C2: once no refresh is pending, items and total are the answer to the
\* query built from the current filter text and page (a failed newest
\* refresh leaves its error in place, so only states without an error are
\* constrained).
C2_NoStaleResult ==
  (~quit /\ ~RefreshPending /\ error = NoErr)
    => items = CurrentQuery.Items /\ total = CurrentQuery.Total

\* C3: a switch completion without error ends the program; one with an
\* error stores it and leaves mode, items, total, cursor and page alone in a
\* session that goes on.
C3_SwitchCompletion ==
  [][\A c \in BagToSet(cmds) :
       SwitchCompletes(c) =>
         IF error' = NoErr THEN quit'
         ELSE /\ ~quit'
              /\ error' \in {ErrGitSwitch, ErrGitList, ErrOutOfRange}
              /\ mode' = mode
              /\ UNCHANGED << items, total, cursor, page >>]_vars

\* A switch issued in select mode failed after the user entered filter mode.
C3_Witness == error = ErrGitSwitch /\ mode = filterMode /\ ~quit

\* C4: the program ends only on a quit key or on a switch completion
\* without error.
C4_TerminalOnlyByQuitOrSwitch ==
  [][(~quit /\ quit') =>
       \/ \E key \in {"q", "ctrl+c"} : SelectQuit(key) \/ FilterQuit(key)
       \/ \E c \in BagToSet(cmds) : SwitchCompletes(c) /\ error' = NoErr]_vars

\* The program ended on a successful switch to another branch.
C4_Witness == quit /\ error = NoErr /\ head # repo.head

\* C5: a refresh completion with an error stores the error and leaves
\* items, total, cursor, totalPages and page alone.
C5_RefreshFailureFrame ==
  [][\A c \in BagToSet(cmds) :
       (RefreshCompletes(c) /\ error' # NoErr) =>
         /\ error' = ErrGitList
         /\ UNCHANGED << items, total, cursor, totalPages, page >>]_vars

\* A refresh failed after an earlier one had filled the list.
C5_Witness ==
  error = ErrGitList /\ items # <<>> /\ numberBuffer = <<>> /\ keys = BrowseKeys

\* C6: a refresh completion either fails or replaces items and total by the
\* answer to its query and clears the error.
C6_RefreshSuccessReplaces ==
  [][\A c \in BagToSet(cmds) :
       RefreshCompletes(c) =>
         \/ error' = ErrGitList
         \/ /\ error' = NoErr
            /\ items' = AnswerTo(c).Items
            /\ total' = AnswerTo(c).Total]_vars

\* A filtered result replaced the unfiltered one.
C6_Witness ==
  error = NoErr /\ input = <<"B">> /\ total = 3 /\ Len(items) = 2 /\ ~RefreshPending

\* C7: after a refresh completion without error totalPages is
\* ceil(total / pageSize).
C7_TotalPagesIsCeil ==
  [][\A c \in BagToSet(cmds) :
       (RefreshCompletes(c) /\ error' = NoErr) =>
         totalPages' = Ceil(total', perPage)]_vars

\* The branches matching a pattern under the session's scope, and their
\* recency-descending ordering.
Matching(pattern) == FilterByPattern(ScopedBranches(repo, Scope, head), pattern)
FullOrdering(pattern) == SortSlice(Matching(pattern), "recency", "desc")

\* C8: a numeric jump to n above the count of matching branches runs no
\* git switch and, the ref source answering, posts the range error; its
\* completion stores the error in a session that goes on.
C8_JumpBeyondTotal ==
  /\ [](\A c \in BagToSet(cmds) :
          (c.kind = "selectByNumber" /\ c.n > Len(Matching(c.Pattern))) =>
            \A ok \in BOOLEAN, switched \in BOOLEAN :
              /\ selectByNumberMsg(c, ok, switched).target = NoTarget
              /\ selectByNumberMsg(c, ok, switched).err =
                   IF ok THEN ErrOutOfRange ELSE ErrGitList)
  /\ [][\A c \in BagToSet(cmds) :
          (c.kind = "selectByNumber" /\ c.n > Len(Matching(c.Pattern))
             /\ Completes(c)) =>
            /\ error' \in {ErrOutOfRange, ErrGitList}
            /\ ~quit'
            /\ head' = head]_vars

\* Number 3 was entered where two branches match: the range error shows.
C8_Witness ==
  error = ErrOutOfRange /\ ~quit /\ repo = RepoB /\ numberBuffer = <<>>

\* C9: a numeric jump to n within the count of matching branches runs git
\* switch with the name at position n of the full ordering under the
\* filter text it was entered with, and a successful one checks it out.
C9_JumpResolvesGlobalIndex ==
  /\ [](\A c \in BagToSet(cmds) :
          (c.kind = "selectByNumber" /\ 1 <= c.n /\ c.n <= Len(Matching(c.Pattern))) =>
            \A switched \in BOOLEAN :
              selectByNumberMsg(c, TRUE, switched).target =
                FullOrdering(c.Pattern)[c.n].Name)
  /\ [][\A c \in BagToSet(cmds) :
          (c.kind = "selectByNumber" /\ 1 <= c.n /\ c.n <= Len(Matching(c.Pattern))
             /\ Completes(c) /\ quit') =>
            head' = FullOrdering(c.Pattern)[c.n].Name]_vars

\* Number 5 was entered on the first page of five branches in pages of
\* two: the fifth branch, shown on no page so far, is checked out.
C9_Witness ==
  /\ quit /\ error = NoErr /\ repo = RepoA /\ perPage = 2
  /\ head = <<"b">> /\ page = 0 /\ input = <<>>

\* The buffer parses as a positive int.
ParsesPositive(buffer) ==
  /\ buffer # <<>>
  /\ \A i \in 1..Len(buffer) : IsDigit(buffer[i])
  /\ \E i \in 1..Len(buffer) : buffer[i] # "0"
  /\ ~ExceedsMaxInt(buffer)

\* C10: enter in select mode with a non-empty numberBuffer empties it; when
\* the buffer does not parse as a positive integer the validation error is
\* stored, no command is returned and the session stays in select mode.
C10_InvalidNumberRejected ==
  [][(numberBuffer # <<>> /\ \E key \in {"enter"} : SelectEnter(key)) =>
       /\ numberBuffer' = <<>>
       /\ ~ParsesPositive(numberBuffer) =>
            /\ error' = ErrInvalidSelection
            /\ cmds' = cmds
            /\ mode' = selectMode
            /\ ~quit']_vars

\* A buffer that does not parse was entered.
C10_Witness ==
  error = ErrInvalidSelection /\ numberBuffer = <<>> /\ mode = selectMode /\ ~quit

\* The number of commands of kind k in the bag b.
KindCount(b, k) ==
  BagCardinality([c \in {x \in BagToSet(b) : x.kind = k} |-> b[c]])

\* A step that issues exactly command c and nothing else.
Issues(c) == cmds' = cmds (+) SetToBag({c})

\* C11: enter in select mode with an empty numberBuffer: with items
\* non-empty it issues exactly one command, which runs git switch (without
\* -c) on the name of items[cursor], and changes nothing else; with items
\* empty it changes nothing.  No other step issues such a command.
C11_EnterSwitchesCursorBranch ==
  [][ /\ (SelectEnter("enter") /\ TrimSpace(numberBuffer) = <<>>) =>
           IF Len(items) = 0 THEN UNCHANGED vars
           ELSE LET name == items[cursor + 1].Name
                IN \E c \in BagToSet(cmds') :
                     /\ Issues(c)
                     /\ c.kind = "checkout"
                     /\ checkoutMsg(c, TRUE).target = name
                     /\ checkoutMsg(c, TRUE).head = name
                     /\ Checkout(head, c.name, c.create, TRUE).args = <<"switch", name>>
                     /\ UNCHANGED << repo, head, keys, Scope, input, page, perPage,
                                     totalPages, items, total, error, cursor, mode,
                                     numberBuffer, quit >>
      /\ KindCount(cmds', "checkout") > KindCount(cmds, "checkout") =>
           /\ SelectEnter("enter")
           /\ TrimSpace(numberBuffer) = <<>>
           /\ Len(items) > 0
           /\ KindCount(cmds', "checkout") = KindCount(cmds, "checkout") + 1
    ]_vars

\* A switch to the branch under a cursor that was moved is in flight.
C11_Witness ==
  /\ cursor > 0
  /\ \E c \in BagToSet(cmds) : c.kind = "checkout" /\ c.name = items[cursor + 1].Name
\* n presses of down starting from cursor cur in a list of len items.
RECURSIVE Downs(_, _, _)
Downs(cur, len, n) ==
  IF n = 0 THEN cur ELSE Downs(CursorDown(cur, len), len, n - 1)

\* Everything but the cursor.
exceptCursor ==
  << repo, head, keys, Scope, input, page, perPage, totalPages, items, total,
     error, mode, numberBuffer, quit, cmds >>

\* C12: in select mode down moves the cursor to (cursor+1) mod len(items)
\* and up to (cursor-1) mod len(items), both leave it alone when items is
\* empty, and neither changes anything else or issues a command; down then
\* up, and up then down, restore the cursor, and len(items) downs return
\* to it.
C12_CursorWraps ==
  /\ [](LET n == Len(items)
        IN /\ CursorUp(CursorDown(cursor, n), n) = cursor
           /\ CursorDown(CursorUp(cursor, n), n) = cursor
           /\ Downs(cursor, n, n) = cursor
           /\ n > 0 /\ cursor = n - 1 => CursorDown(cursor, n) = 0
           /\ n > 0 /\ cursor = 0 => CursorUp(cursor, n) = n - 1)
  /\ [][ LET n == Len(items)
         IN /\ (\E key \in {"down", "j"} : SelectDown(key)) =>
                 /\ cursor' = IF n = 0 THEN cursor ELSE (cursor + 1) % n
                 /\ UNCHANGED exceptCursor
            /\ (\E key \in {"up", "k"} : SelectUp(key)) =>
                 /\ cursor' = IF n = 0 THEN cursor ELSE (cursor + n - 1) % n
                 /\ UNCHANGED exceptCursor
       ]_vars

\* The cursor is on the third of four items, off both ends.
C12_Witness ==
  /\ Len(items) = 4 /\ cursor = 2 /\ mode = selectMode
\* A step in which Update handles a page-forward key, a page-back key.
PageForwardStep ==
  \E key \in keys : SelectNextPage(key) \/ FilterNextPage(key)
PageBackStep ==
  \E key \in keys : SelectPrevPage(key) \/ FilterPrevPage(key)

\* C13: a page-forward key advances the current page by one, resets the
\* cursor to 0 and issues a refresh for the resulting page; stated for the
\* presses made while the last result has a further page, page + 1 <
\* ceil(total / pageSize), where advancing is the only reading.
C13_PageForwardAdvances ==
  [][ (PageForwardStep /\ page + 1 < Ceil(total, perPage)) =>
        /\ page' = page + 1
        /\ cursor' = 0
        /\ Issues(refreshList(input, page'))
    ]_vars

\* The part of C13 the code keeps: a page-back key above the first page
\* retreats by one, and every page key that is not ignored resets the
\* cursor and issues a refresh for the resulting page.
C13_PageBackRetreats ==
  [][ /\ (PageBackStep /\ page > 0) =>
           /\ page' = page - 1
           /\ cursor' = 0
           /\ Issues(refreshList(input, page'))
      /\ PageForwardStep =>
           /\ page' \in {page, page + 1}
           /\ cursor' = 0
           /\ Issues(refreshList(input, page'))
    ]_vars
\* A step in which Update handles key in select mode, in filter mode.
SelectKey(key) ==
  \/ SelectQuit(key) \/ SelectF(key) \/ SelectEnter(key) \/ SelectBackspace(key)
  \/ SelectUp(key) \/ SelectDown(key) \/ SelectPrevPage(key)
  \/ SelectNextPage(key) \/ SelectTab(key) \/ SelectDefault(key)
FilterKey(key) ==
  \/ FilterQuit(key) \/ FilterExit(key) \/ FilterTab(key)
  \/ FilterPrevPage(key) \/ FilterNextPage(key) \/ FilterInput(key)

\* What a page-forward key and a page-back key do in select mode.
ForwardEffect ==
  /\ page' = NextPage(page, totalPages)
  /\ cursor' = 0
  /\ Issues(refreshList(input, page'))
BackEffect ==
  IF page > 0
    THEN /\ page' = page - 1
         /\ cursor' = 0
         /\ Issues(refreshList(input, page'))
  ELSE UNCHANGED << page, cursor, cmds >>

\* C14: in filter mode pgdn, n and right page forward and pgup, p and left
\* page back, with the effect on page, cursor and refresh they have in
\* select mode.
C14_PageKeysSameInFilter ==
  [][ /\ \A key \in {"pgdn", "n", "right"} \cap keys :
           /\ SelectKey(key) => ForwardEffect
           /\ FilterKey(key) => ForwardEffect
      /\ \A key \in {"pgup", "p", "left"} \cap keys :
           /\ SelectKey(key) => BackEffect
           /\ FilterKey(key) => BackEffect
    ]_vars

\* What holds instead: the select-mode half, and in filter mode pgdn, n
\* and LEFT page forward, pgup, p and RIGHT page back.
C14_FilterArrowsSwapped ==
  [][ /\ \A key \in {"pgdn", "n", "right"} \cap keys : SelectKey(key) => ForwardEffect
      /\ \A key \in {"pgup", "p", "left"} \cap keys : SelectKey(key) => BackEffect
      /\ \A key \in {"pgdn", "n", "left"} \cap keys : FilterKey(key) => ForwardEffect
      /\ \A key \in {"pgup", "p", "right"} \cap keys : FilterKey(key) => BackEffect
    ]_vars
\* Everything but quit.
exceptQuit ==
  << repo, head, keys, Scope, input, page, perPage, totalPages, items, total,
     error, cursor, mode, numberBuffer, cmds >>

\* A step in which Update handles a quit key.
QuitStep == \E key \in {"q", "ctrl+c"} : SelectKey(key) \/ FilterKey(key)

\* C15: a quit key handled in select or in filter mode makes the session
\* terminal in that very step, whatever is in flight: the step is possible
\* in every non-terminal state, it leaves the commands in flight where
\* they are, and no completion is applied once the session is terminal.
C15_QuitIsImmediate ==
  /\ [](\A key \in {"q", "ctrl+c"} \cap keys :
          ~quit => ENABLED ((SelectKey(key) \/ FilterKey(key)) /\ quit'))
  /\ [][ /\ QuitStep => (quit' /\ UNCHANGED exceptQuit)
         /\ ~quit
       ]_vars

\* The session ended in filter mode with a refresh and a switch in flight.
C15_Witness ==
  /\ quit /\ mode = filterMode
  /\ KindCount(cmds, "refreshList") >= 1
  /\ KindCount(cmds, "checkout") >= 1
\* Everything but the mode.
exceptMode ==
  << repo, head, keys, Scope, input, page, perPage, totalPages, items, total,
     error, cursor, numberBuffer, quit, cmds >>

\* C16: the session starts in select mode; f in select mode leads to filter
\* mode, and in filter mode the escape key (delivered as "esc") and f lead
\* back to select mode; these steps change nothing but the mode and issue
\* no command.
C16_ModeKeys ==
  /\ mode = selectMode
  /\ [][ /\ SelectKey("f") => (mode' = filterMode /\ UNCHANGED exceptMode)
         /\ \A key \in {"esc", "f"} \cap keys :
              FilterKey(key) => (mode' = selectMode /\ UNCHANGED exceptMode)
       ]_vars

\* What holds instead: f toggles the mode and changes nothing else, and
\* the escape key in filter mode keeps the mode and issues a refresh.
C16_EscapeStaysInFilter ==
  /\ mode = selectMode
  /\ [][ /\ SelectKey("f") => (mode' = filterMode /\ UNCHANGED exceptMode)
         /\ FilterKey("f") => (mode' = selectMode /\ UNCHANGED exceptMode)
         /\ FilterKey("esc") =>
              /\ Issues(refreshList(input, page))
              /\ UNCHANGED << input, page, items, total, cursor, mode, numberBuffer, quit >>
       ]_vars
\* C17: in filter mode every key step that changes the filter text (a
\* typed character, a deletion, tab) issues exactly one refresh, whose
\* query has the new text without surrounding whitespace as pattern, the
\* session's scope, sort recency descending, the current page and the page
\* size.
C17_TextChangeRefreshes ==
  [][ (mode = filterMode /\ input' # input) =>
        \E c \in BagToSet(cmds') :
          /\ Issues(c)
          /\ c.kind = "refreshList"
          /\ Request(c, c.Page, c.PageSize) =
               [Pattern |-> TrimSpace(input'), Scope |-> Scope,
                SortBy |-> "recency", SortDir |-> "desc",
                Page |-> page + 1, PageSize |-> perPage]
          /\ page' = page
          /\ c.Pattern = <<>> \/ (~IsSpace(Head(c.Pattern))
                                  /\ ~IsSpace(c.Pattern[Len(c.Pattern)]))
    ]_vars

\* A blank was typed into the filter of a loaded list, and the refresh it
\* issued, for the empty pattern, is in flight.
C17_Witness ==
  /\ mode = filterMode /\ input # <<>> /\ TrimSpace(input) # input
  /\ total > 0
  /\ KindCount(cmds, "refreshList") = 1
  /\ \E c \in BagToSet(cmds) : c.kind = "refreshList" /\ c.Pattern = TrimSpace(input)
\* The state is inside the bounds of the model: one more command, digit,
\* character and page fit.
WithinBounds ==
  /\ BagCardinality(cmds) < MaxInflight
  /\ Len(numberBuffer) < MaxBuffer
  /\ Len(input) < MaxFilterLen
  /\ page < MaxPage

\* C18: while refreshes or switches are pending, for however long, every
\* key is handled in every non-terminal state: handling a key never waits
\* for a completion and never takes a pending command away.
C18_KeysNeverBlocked ==
  /\ []((~quit /\ cmds # EmptyBag /\ WithinBounds) =>
          \A key \in keys : ENABLED (SelectKey(key) \/ FilterKey(key)))
  /\ [][ (\E key \in keys : SelectKey(key) \/ FilterKey(key)) =>
           \A c \in BagToSet(cmds) : CopiesIn(c, cmds') >= CopiesIn(c, cmds)
       ]_vars

\* Keys were handled (the mode changed, the text edited) while the first
\* refresh is still pending.
C18_Witness ==
  /\ ~quit /\ items = <<>> /\ total = 0 /\ error = NoErr
  /\ mode = filterMode /\ input # <<>>
  /\ \E c \in BagToSet(cmds) : c.kind = "refreshList" /\ c.Pattern # TrimSpace(input)
\* The request whose pages are listed, and whether all of its pages
\* 1..ceil(total/pageSize) have been listed.
TheRequest == CHOOSE req \in BagToSet(cmds) : TRUE
AllListed == page >= 1 /\ page * perPage >= total

Range(seq) == {seq[i] : i \in 1..Len(seq)}

\* Two characters are the same letter, whatever their case.
SameLetter(x, y) ==
  \/ x = y
  \/ {x, y} \in {{"a", "A"}, {"b", "B"}, {"d", "D"}, {"e", "E"}, {"h", "H"}}

\* name contains pattern as a substring when case is ignored.
ContainsFold(name, pattern) ==
  \E i \in 0..(Len(name) - Len(pattern)) :
    \A k \in 1..Len(pattern) : SameLetter(name[i + k], pattern[k])

\* The branches of the scope the pattern selects.
Selected ==
  {b \in Range(ScopedBranches(repo, Scope, head)) :
     TheRequest.Pattern = <<>> \/ ContainsFold(b.Name, TheRequest.Pattern)}

\* C19: the pages of ListBranches together hold exactly the branches whose
\* name contains the pattern case-insensitively, each once; an empty
\* pattern selects every branch of the scope; Total is the number of
\* selected branches.
C19_FilterIsExact ==
  /\ Range(items) \subseteq Selected
  /\ page >= 1 => total = Cardinality(Selected)
  /\ AllListed => /\ Range(items) = Selected
                  /\ Len(items) = Cardinality(Selected)
  /\ TheRequest.Pattern = <<>> =>
       Selected = Range(ScopedBranches(repo, Scope, head))

\* A listing is complete in which the pattern left a branch out and kept
\* one whose name has the pattern only in another case.
C19_Witness ==
  /\ AllListed
  /\ TheRequest.Pattern # <<>>
  /\ Len(items) < Len(ScopedBranches(repo, Scope, head))
  /\ \E i \in 1..Len(items) : ~Contains(items[i].Name, TheRequest.Pattern)
\* The whole listing in one page.
OnePage ==
  ListBranches(repo, head,
               [TheRequest EXCEPT !.Page = 1,
                                  !.PageSize = Len(ScopedBranches(repo, Scope, head)) + 1]).Items

\* C20: every page of ListBranches has at most pageSize items, and pages
\* 1..ceil(total/pageSize) one after the other are the full sorted,
\* filtered sequence: in sort order, every selected branch exactly once.
C20_PagesPartitionListing ==
  /\ [](/\ Len(items) <= page * perPage
        /\ AllListed =>
             /\ items = OnePage
             /\ Len(items) = total
             /\ \A i, j \in 1..Len(items) :
                  /\ i # j => items[i] # items[j]
                  /\ i < j => ~Less(TheRequest.SortBy, TheRequest.SortDir,
                                    items[j], items[i])
             /\ Range(items) = Selected)
  /\ [][ /\ Len(items') - Len(items) <= perPage
         /\ items = SubSeq(items', 1, Len(items))
         /\ page' = page + 1
       ]_vars

\* Three pages were listed, the last of them not full.
C20_Witness ==
  /\ AllListed /\ page = 3 /\ perPage = 2 /\ Len(items) = 5
  /\ TheRequest.SortBy = "name"
\* The response to the request as made.
TheResponse == ListBranches(repo, head, TheRequest)

Min(a, b) == IF a < b THEN a ELSE b

\* C21: hasPrev is (page > 1) for the requested page, a page <= 0 counting
\* as 1, and hasNext is (end < total); a page beyond the last gives empty
\* items, hasNext false and hasPrev true; an empty filtered set asked for
\* page 1 gives total 0, empty items and both flags false.
C21_PageFlags ==
  page >= 1 =>
    LET asked == IF TheRequest.Page <= 0 THEN 1 ELSE TheRequest.Page
        n == Cardinality(Selected)
        start == Min((asked - 1) * perPage, n)
        end == Min(start + perPage, n)
    IN /\ page = asked
       /\ items = TheResponse.Items /\ total = n /\ TheResponse.Total = n
       /\ Len(items) = end - start
       /\ TheResponse.HasPrev = (asked > 1)
       /\ TheResponse.HasNext = (end < n)
       /\ (asked > 1 /\ (asked - 1) * perPage >= n) =>
            /\ items = <<>>
            /\ ~TheResponse.HasNext
            /\ TheResponse.HasPrev
       /\ (n = 0 /\ asked = 1) =>
            /\ total = 0 /\ items = <<>>
            /\ ~TheResponse.HasPrev /\ ~TheResponse.HasNext

\* A page beyond the last of a non-empty listing was asked for.
C21_Witness ==
  /\ page > 1 /\ total > 0 /\ (page - 1) * perPage > total
  /\ items = <<>> /\ TheResponse.HasPrev /\ ~TheResponse.HasNext
Reverse(seq) == [i \in 1..Len(seq) |-> seq[Len(seq) + 1 - i]]

\* The request asked for the whole listing, and got it in one page.
WholeListing == page = 1 /\ Len(items) = total

\* The whole listing for the request with sort direction dir.
ListedInDir(dir) ==
  ListBranches(repo, head, [TheRequest EXCEPT !.SortDir = dir]).Items

\* C22: for every branch set, also one in which a local and a remote
\* branch have the same name, the listing sorted by name ascending and
\* then reversed is the listing sorted by name descending.
C22_NameAscReversedIsDesc ==
  (WholeListing /\ TheRequest.SortBy = "name" /\ TheRequest.SortDir = "asc") =>
    Reverse(items) = ListedInDir("desc")

\* What holds instead: the two are equal whenever no two listed branches
\* have the same name.
C22_DistinctNamesReverse ==
  (/\ WholeListing /\ TheRequest.SortBy = "name" /\ TheRequest.SortDir = "asc"
   /\ \A i, j \in 1..Len(items) : i # j => items[i].Name # items[j].Name) =>
    Reverse(items) = ListedInDir("desc")
HasTime(b) == b.HeadCommitAt # NoTime

\* The whole listing for the request with SortBy by and SortDir dir.
ListedAs(by, dir) ==
  ListBranches(repo, head, [TheRequest EXCEPT !.SortBy = by, !.SortDir = dir]).Items

DefaultedPageSize ==
  \E s \in Sessions :
    s.repo = repo /\ s.Scope = Scope /\ s.keys = keys /\ s.PageSize <= 0

\* The page size in effect in the query of refresh c, in the page/offset
\* computation of jump c, and in the totalPages computation.
RefreshPageSize(c) == AnswerTo(c).PageSize
JumpPageSize(c) == IF c.PageSize <= 0 THEN FallbackPerPage ELSE c.PageSize
TotalPagesPageSize == IF perPage <= 0 THEN FallbackPerPage ELSE perPage

\* The page size is v in the constructed session, in every refresh query,
\* in every numeric jump and in the totalPages computation.
PageSizeEverywhere(v) ==
  /\ perPage = v
  /\ \A c \in BagToSet(cmds) :
       /\ c.kind = "refreshList" => RefreshPageSize(c) = v
       /\ c.kind = "selectByNumber" => JumpPageSize(c) = v
  /\ TotalPagesPageSize = v

\* C24: when the configured page size is absent or <= 0 the page size in
\* effect is the default 50, the same in the constructor, in the query of
\* a refresh, in the numeric jump and in the totalPages computation.
C24_DefaultPageSizeIs50 ==
  DefaultedPageSize => PageSizeEverywhere(50)

\* What holds instead: the four places agree, on the constructor's 25.
C24_DefaultPageSizeIs25 ==
  DefaultedPageSize => PageSizeEverywhere(NewDefaultPageSize)
\* C25: a listed branch is current exactly when the lookup of the current
\* branch succeeded, the branch is local and its name is the current
\* branch's; a remote branch of that name is not current, at most one
\* branch is, and when the lookup fails the listing has none; filter, sort
\* and pagination keep the mark.
C25_CurrentMark ==
  /\ \A i \in 1..Len(items) :
       items[i].IsCurrent =
         (head # Detached /\ ~items[i].IsRemote /\ items[i].Name = head)
  /\ Cardinality({i \in 1..Len(items) : items[i].IsCurrent}) <= 1
  /\ head = Detached => \A i \in 1..Len(items) : ~items[i].IsCurrent
  /\ WholeListing =>
       \A b \in Selected :
         (~b.IsRemote /\ b.Name = head) =>
           \E i \in 1..Len(items) : items[i].IsCurrent /\ items[i].Name = head

\* A page holds the current local branch, marked, and a remote branch of
\* the same name, not marked.
C25_Witness ==
  \E i, j \in 1..Len(items) :
    /\ items[i].IsCurrent /\ ~items[i].IsRemote
    /\ items[j].IsRemote /\ items[j].Name = items[i].Name /\ ~items[j].IsCurrent
\* The last call of Checkout and its result.
TheCall == CHOOSE c \in BagToSet(cmds) : TRUE

\* A name that is empty or made of blanks, tabs and line ends only.
Blank(name) == \A i \in 1..Len(name) : name[i] \in {" ", "\t", "\n"}

\* C26: Checkout of an empty or whitespace-only name returns the
\* validation error and an empty previous-branch name, and runs neither
\* the lookup of the current branch nor git switch: the checked-out branch
\* stays what it was.
C26_BlankNameRejected ==
  (cmds # EmptyBag /\ Blank(TheCall.name)) =>
    /\ TheCall.err = ErrNameRequired /\ error = ErrNameRequired
    /\ TheCall.prev = <<>>
    /\ ~TheCall.looked /\ ~TheCall.ran /\ TheCall.args = <<>>
    /\ head = TheCall.before

\* A whitespace-only name was rejected while a branch was checked out,
\* whose name was not reported.
C26_Witness ==
  /\ cmds # EmptyBag
  /\ TheCall.name = <<"\n", " ">> /\ TheCall.err = ErrNameRequired
  /\ head # Detached /\ head # repo.head /\ TheCall.prev = <<>>
\* C27: Checkout of a non-blank name returns as previous branch the one
\* checked out right before the call, empty when the lookup failed, on
\* success and on failure alike; the switch is run whether or not the
\* lookup failed; after a success the target is checked out, so a call
\* that follows a successful Checkout(a) reports a.
C27_PreviousBranch ==
  /\ []((cmds # EmptyBag /\ ~Blank(TheCall.name)) =>
          /\ TheCall.prev = IF TheCall.before = Detached THEN <<>> ELSE TheCall.before
          /\ TheCall.looked /\ TheCall.ran
          /\ TheCall.args \in {<<"switch", TheCall.name>>,
                               <<"switch", "-c", TheCall.name>>}
          /\ TheCall.err = NoErr => head = TheCall.name
          /\ TheCall.err # NoErr => head = TheCall.before)
  /\ [][ (/\ cmds # EmptyBag /\ ~Blank(TheCall.name) /\ TheCall.err = NoErr
          /\ ~Blank(TheCall'.name)) =>
           TheCall'.prev = TheCall.name
       ]_vars

\* A switch failed after an earlier one had succeeded, and reported the
\* earlier target as previous branch.
C27_Witness ==
  /\ cmds # EmptyBag
  /\ TheCall.err = ErrGitSwitch /\ TheCall.ran
  /\ TheCall.prev = <<"b">> /\ repo.head # <<"b">> /\ head = <<"b">>

\* The switch was run from a detached head: nothing is reported as
\* previous branch and the target is checked out.
C27_DetachedWitness ==
  /\ cmds # EmptyBag
  /\ TheCall.before = Detached /\ TheCall.prev = <<>>
  /\ TheCall.err = NoErr /\ head = <<"a">>
\* The lines of the output, each without its line end.
RECURSIVE LinesOf(_)
LinesOf(out) ==
  IF out = <<>> THEN <<>>
  ELSE LET e == CHOOSE i \in 1..Len(out) :
                  out[i] = "\n" /\ \A j \in 1..(i - 1) : out[j] # "\n"
       IN <<SubSeq(out, 1, e - 1)>> \o LinesOf(SubSeq(out, e + 1, Len(out)))

\* The positions of the tabs of a line, and the k-th of them.
Tabs(line) == {i \in 1..Len(line) : line[i] = "\t"}
Tab(line, k) ==
  CHOOSE i \in Tabs(line) : Cardinality({j \in Tabs(line) : j < i}) = k - 1

\* The Branch a line with at least 4 tab-separated fields stands for.
BranchOf(line, isRemote) ==
  LET ref == SubSeq(line, 1, Tab(line, 1) - 1)
      date == SubSeq(line, Tab(line, 2) + 1, Tab(line, 3) - 1)
      prefix == IF isRemote THEN "m" ELSE "h"
  IN [Name |-> IF ref # <<>> /\ ref[1] = prefix THEN Tail(ref) ELSE ref,
      IsRemote |-> isRemote,
      IsCurrent |-> FALSE,
      HeadCommitAt |-> IF date = <<"D">> THEN <<1>> ELSE NoTime]

\* One Branch for each non-blank line with at least 4 fields, in order.
RECURSIVE BranchesOf(_, _)
BranchesOf(lines, isRemote) ==
  IF lines = <<>> THEN <<>>
  ELSE (IF ~Blank(Head(lines)) /\ Cardinality(Tabs(Head(lines))) >= 3
          THEN <<BranchOf(Head(lines), isRemote)>>
        ELSE <<>>) \o BranchesOf(Tail(lines), isRemote)

\* C28: parseForEachRef returns, in input order, exactly one Branch for
\* every non-blank line with at least 4 tab-separated fields, tabs after
\* the third belonging to the subject; blank lines and lines with fewer
\* fields are dropped; a date that does not parse gives an absent
\* HeadCommitAt on its branch only; every Branch has IsCurrent false and
\* IsRemote equal to the batch flag.
C28_OneBranchPerLine ==
  page = 1 =>
    /\ items = BranchesOf(LinesOf(input), Scope = ScopeRemote)
    /\ \A i \in 1..Len(items) :
         ~items[i].IsCurrent /\ items[i].IsRemote = (Scope = ScopeRemote)

\* What holds instead: the same for an output that neither begins nor
\* ends with a blank or a tab, the final line end apart.
C28_OneBranchPerTrimmedLine ==
  (page = 1 /\ input = TrimSpace(input) \o <<"\n">>) =>
    /\ items = BranchesOf(LinesOf(input), Scope = ScopeRemote)
    /\ \A i \in 1..Len(items) :
         ~items[i].IsCurrent /\ items[i].IsRemote = (Scope = ScopeRemote)
\* One copy of command c leaves the bag: its closure has run.
Ran(c) == BagIn(c, cmds) /\ CopiesIn(c, cmds') = CopiesIn(c, cmds) - 1
Crashed == BagIn(Panicked, cmds)

\* C29: in the viewport revision a numeric jump to n above the number of
\* branches its query returns completes with the range error as a failed
\* switch completion (the list error when the query fails): no switch is
\* attempted and the program does not crash on the index.
C29_ViewportJumpBeyondRange ==
  [][\A c \in BagToSet(cmds) :
       (c.kind = "selectByNumber" /\ c.n > Len(AnswerTo(c).Items) /\ Ran(c)) =>
         /\ ~Crashed'
         /\ error' \in {ErrOutOfRange, ErrGitList}
         /\ ~quit'
         /\ head' = head]_vars

\* What holds instead: unless the query fails, the closure panics and the
\* program is over, without a switch.
C29_ViewportJumpBeyondPanics ==
  [][\A c \in BagToSet(cmds) :
       (c.kind = "selectByNumber" /\ c.n > Len(AnswerTo(c).Items) /\ Ran(c)) =>
         /\ head' = head
         /\ \/ Crashed' /\ quit' /\ error' = error
            \/ ~Crashed' /\ ~quit' /\ error' = ErrGitList]_vars
\* C30: in every reachable state with no refresh pending, total > 0
\* implies that items is non-empty and that the page index is below
\* totalPages: no sequence of filter and page events leaves the session on
\* a page past the end of the result.
C30_PageWithinResult ==
  (~RefreshPending /\ total > 0) => (items # <<>> /\ page < totalPages)
\* Model.View: the number shown beside the i-th item (i from 1) of the
\* items displayed.
ShownNumber(i) == page * perPage + (i - 1) + 1

\* The name git switch is run with when the number n is typed and entered
\* now, the ref source answering.
JumpTarget(n) == selectByNumberMsg(selectByNumber(n), TRUE, TRUE).target

NumbersSelectShown ==
  \A i \in 1..Len(items) : JumpTarget(ShownNumber(i)) = items[i].Name

\* C31: in every reachable state, also while the refresh of a page change
\* is pending, the number shown beside a displayed item is its position in
\* the filtered ordering: typing that number and enter attempts a switch to
\* the branch shown beside it.
C31_ShownNumberSelectsShown == ~quit => NumbersSelectShown

\* What holds instead: the numbers are right whenever the items displayed
\* are the answer to the query for the current page and filter text.
C31_AnsweredNumbersSelectShown ==
  (~quit /\ items = CurrentQuery.Items) => NumbersSelectShown
\* The number of switches in flight.
SwitchCount(b) == KindCount(b, "checkout") + KindCount(b, "selectByNumber")
FilterModePageKeys == {"pgup", "p", "right", "pgdn", "n", "left"}

\* No key handled in filter mode, enter included, issues a switch; no
\* completion issues one; a switch is issued only by enter in select mode.
SwitchOnlyBySelectEnter ==
  /\ \A key \in keys : FilterKey(key) => SwitchCount(cmds') = SwitchCount(cmds)
  /\ \A c \in BagToSet(cmds) : Completes(c) => SwitchCount(cmds') <= SwitchCount(cmds)
  /\ SwitchCount(cmds') > SwitchCount(cmds) => SelectEnter("enter")

FilterModeLetters == {"q", "f", "p", "n"}

\* C33: in filter mode q, f, p and n never reach the text input: q ends
\* the session, f returns to select mode, p and n are handled as the
\* page-back and page-forward keys, and each leaves the filter text as it
\* is, so the filter text never holds one of these letters.
C33_FilterLettersNotTyped ==
  /\ [](\A i \in 1..Len(input) : input[i] \notin FilterModeLetters)
  /\ [][\A key \in FilterModeLetters \cap keys :
          FilterKey(key) =>
            /\ input' = input
            /\ key = "q" => (quit' /\ UNCHANGED exceptQuit)
            /\ key = "f" => (mode' = selectMode /\ UNCHANGED exceptMode)
            /\ key = "p" => (BackEffect /\ mode' = mode /\ ~quit')
            /\ key = "n" => (ForwardEffect /\ mode' = mode /\ ~quit')]_vars

\* B was typed and n pressed in filter mode: the refreshes for the first
\* and the second page of the text B are in flight.
C33_Witness ==
  /\ mode = filterMode /\ ~quit /\ keys = FilterMoveKeys
  /\ input = <<"B">> /\ page = 1
  /\ BagIn(refreshList(<<"B">>, 0), cmds) /\ BagIn(refreshList(<<"B">>, 1), cmds)
====
